---- MODULE Spec2Model ----
(***************************************************************************)
(* walkies.py: build minimal passwd and group files for a directory tree.  *)
(*                                                                         *)
(* The Walker visits every entry of the tree (Walker.build), accounts its  *)
(* owner and group into two tables (Walker._add_thing), prunes the tables  *)
(* (Walker._filter_membership) and writes the two files (Walker.report).   *)
(* The identity database (modules pwd and grp) and the tree are inputs.    *)
(***************************************************************************)
EXTENDS Integers, Sequences, FiniteSets, TLC

\* Longest walk (number of entries os.walk yields) that is explored.
MaxEntries == 2
\* Number of times main() is run over the same tree.
MaxRuns == 2
\* Number of changes made to the identity database while a run is going on.
MaxDrift == 1

----------------------------------------------------------------------------
(* The identity database.                                                  *)

\* pwd.struct_passwd, the fields the program reads: [0], [2], [3], [4].
PwEnt(n, u, g, c) == [pw_name |-> n, pw_uid |-> u, pw_gid |-> g, pw_gecos |-> c]
\* grp.struct_group, the fields the program reads: [0], [2], [3].
GrEnt(n, g, m) == [gr_name |-> n, gr_gid |-> g, gr_mem |-> m]

\* alice and bob share the primary group staff, whose roster is alice, carol.
ScenarioDB ==
    [passwd |-> << PwEnt("alice", 1000, 20, "Alice"),
                   PwEnt("bob", 1001, 20, "Bob"),
                   PwEnt("carol", 1002, 20, "Carol") >>,
     group  |-> << GrEnt("staff", 20, <<"alice", "carol">>),
                   GrEnt("ops", 30, << >>) >>]

\* Both owners are on the roster of their primary group.
TeamDB ==
    [passwd |-> << PwEnt("alice", 1000, 20, "Alice"),
                   PwEnt("bob", 1001, 20, "Bob") >>,
     group  |-> << GrEnt("staff", 20, <<"alice", "bob">>),
                   GrEnt("ops", 30, <<"bob">>) >>]

\* Two names for uid 1000 (as root and toor for uid 0).
AliasDB ==
    [passwd |-> << PwEnt("alice", 1000, 20, "Alice"),
                   PwEnt("alicia", 1000, 20, "Alice again"),
                   PwEnt("bob", 1001, 30, "Bob") >>,
     group  |-> << GrEnt("staff", 20, <<"alicia", "bob">>),
                   GrEnt("ops", 30, <<"alice">>) >>]

\* The roster of staff names dave, who has no passwd entry.
StaleDB ==
    [passwd |-> << PwEnt("alice", 1000, 20, "Alice"),
                   PwEnt("bob", 1001, 30, "Bob") >>,
     group  |-> << GrEnt("staff", 20, <<"alice", "dave">>),
                   GrEnt("ops", 30, <<"bob">>) >>]

\* A database that does not match the tree: no uid 1001, no gid 30, and the
\* primary group 40 of alice has no group entry.
ForeignDB ==
    [passwd |-> << PwEnt("alice", 1000, 40, "Alice") >>,
     group  |-> << GrEnt("staff", 20, << >>) >>]

DBs == {ScenarioDB, TeamDB, AliasDB, StaleDB, ForeignDB}

Min(S) == CHOOSE x \in S : \A y \in S : x <= y

Range(s) == {s[k] : k \in DOMAIN s}

\* pwd.getpwuid(uid): the first entry with that uid; KeyError when none.
PwUidIdx(d, uid) == {k \in DOMAIN d.passwd : d.passwd[k].pw_uid = uid}
HasPwUid(d, uid) == PwUidIdx(d, uid) # {}
getpwuid(d, uid) == d.passwd[Min(PwUidIdx(d, uid))]

\* pwd.getpwnam(name): the first entry with that name; KeyError when none.
PwNamIdx(d, n) == {k \in DOMAIN d.passwd : d.passwd[k].pw_name = n}
HasPwNam(d, n) == PwNamIdx(d, n) # {}
getpwnam(d, n) == d.passwd[Min(PwNamIdx(d, n))]

\* grp.getgrgid(gid): the first entry with that gid; KeyError when none.
GrGidIdx(d, gid) == {k \in DOMAIN d.group : d.group[k].gr_gid = gid}
HasGrGid(d, gid) == GrGidIdx(d, gid) # {}
getgrgid(d, gid) == d.group[Min(GrGidIdx(d, gid))]

----------------------------------------------------------------------------
(* The tree.                                                               *)

\* What a directory entry can be.
Kinds == {"file", "dir", "symlink", "fifo"}

\* The uids and gids os.stat reports in the trees explored.
Uids == {1000, 1001}
Gids == {20, 30}

\* Path.stat(): the owner, or FileNotFoundError / PermissionError (ok = FALSE:
\* the entry vanished, is unreadable, or is a dangling symlink).
NoStat == [ok |-> FALSE, st_uid |-> 0, st_gid |-> 0]
Stats == {NoStat} \cup {[ok |-> TRUE, st_uid |-> u, st_gid |-> g] : u \in Uids, g \in Gids}

Entries == [kind : Kinds, st : Stats]

\* A walk: the entries in the order Path.walk yields them.  The path of an
\* entry is its position in the walk.
Trees == UNION {[1..n -> Entries] : n \in 0..MaxEntries}

\* Path.walk(follow_symlinks=False) puts directories in dirs and every other
\* entry (symlinks to directories included) in files; build() passes
\* FObj.FILE for the former and FObj.DIR for the latter.
FILE == 1
DIR == 2

\* FObjOf as with follow_symlinks=True: symlinks listed among the dirs.
FObjOfFollowingSymlinks(kind) == IF kind \in {"dir", "symlink"} THEN DIR ELSE FILE

FObjOf(kind) == IF kind = "dir" THEN DIR ELSE FILE

----------------------------------------------------------------------------
(* The Walker's tables.                                                    *)

\* An Ownership with no paths and no members.
Ownership(n, id, pgrp, descr) ==
    [name |-> n, id |-> id, pgrp |-> pgrp, descr |-> descr,
     files |-> << >>, dirs |-> << >>, members |-> {}]

\* Walker.__init__: empty tables.  gkeys is the insertion order of _by_group
\* (a dict iterates in insertion order); err the exception that ended the run.
NewWalker ==
    [by_user |-> << >>, by_group |-> << >>, gkeys |-> << >>, pgrps |-> {},
     err |-> ""]

Raise(W, e) == [W EXCEPT !.err = e]

\* NewUser with pgrp=uid, as the group records have pgrp=gid.
NewUserPgrpIsId(uid, pw) == Ownership(pw.pw_name, uid, uid, pw.pw_gecos)

\* The record made for a user seen for the first time.
NewUser(uid, pw) == Ownership(pw.pw_name, uid, pw.pw_gid, pw.pw_gecos)

\* if uid not in self._by_user: ...
EnsureUser(W, uid, pw) ==
    IF uid \in DOMAIN W.by_user THEN W
    ELSE [W EXCEPT !.by_user = (uid :> NewUser(uid, pw)) @@ @]

\* if gid not in self._by_group: ...   (no members are copied here)
EnsureGroup(W, gid, gname) ==
    IF gid \in DOMAIN W.by_group THEN W
    ELSE [W EXCEPT !.by_group = (gid :> Ownership(gname, gid, gid, "")) @@ @,
                   !.gkeys = Append(@, gid)]

\* if ugrp not in self._by_group: ...  (the roster is copied onto a record
\* that is created here, and only then)
EnsurePrimary(W, ugrp, grpdef) ==
    IF ugrp \in DOMAIN W.by_group THEN W
    ELSE [W EXCEPT !.by_group =
                       (ugrp :> [Ownership(grpdef.gr_name, ugrp, ugrp, "")
                                   EXCEPT !.members = Range(grpdef.gr_mem)]) @@ @,
                   !.gkeys = Append(@, ugrp)]

\* The append to the owner's and to the group's files or dirs.
AddPath(W, uid, gid, path, itype) ==
    IF itype = FILE
    THEN [W EXCEPT !.by_user[uid].files = Append(@, path),
                   !.by_group[gid].files = Append(@, path)]
    ELSE [W EXCEPT !.by_user[uid].dirs = Append(@, path),
                   !.by_group[gid].dirs = Append(@, path)]

\* _add_thing that skips an entry whose ids do not resolve, as it skips one
\* whose stat fails.
AddThingSkippingUnresolved(W, path, itype, st, d) ==
    IF ~st.ok THEN W
    ELSE IF ~HasPwUid(d, st.st_uid) \/ ~HasGrGid(d, st.st_gid) THEN W
    ELSE IF ~HasGrGid(d, getpwuid(d, st.st_uid).pw_gid) THEN W
    ELSE LET uid  == st.st_uid
             gid  == st.st_gid
             pw   == getpwuid(d, uid)
             ugrp == pw.pw_gid
             W1   == [W EXCEPT !.pgrps = @ \cup {ugrp}]
             W2   == EnsureUser(W1, uid, pw)
             W3   == EnsureGroup(W2, gid, getgrgid(d, gid).gr_name)
         IN  AddPath(EnsurePrimary(W3, ugrp, getgrgid(d, ugrp)),
                     uid, gid, path, itype)

\* Walker._add_thing(item, itype=itype), with st what item.stat() gives.
AddThing(W, path, itype, st, d) ==
    IF ~st.ok THEN W
    ELSE IF ~HasPwUid(d, st.st_uid) \/ ~HasGrGid(d, st.st_gid)
         THEN Raise(W, "KeyError")
    ELSE LET uid  == st.st_uid
             gid  == st.st_gid
             pw   == getpwuid(d, uid)
             ugrp == pw.pw_gid
             W1   == [W EXCEPT !.pgrps = @ \cup {ugrp}]
             W2   == EnsureUser(W1, uid, pw)
             W3   == EnsureGroup(W2, gid, getgrgid(d, gid).gr_name)
         IN  IF ugrp \notin DOMAIN W3.by_group /\ ~HasGrGid(d, ugrp)
             THEN Raise(W3, "KeyError")
             ELSE AddPath(EnsurePrimary(W3, ugrp, getgrgid(d, ugrp)),
                          uid, gid, path, itype)

----------------------------------------------------------------------------
(* Walker._filter_membership.                                              *)

Restrict(f, S) == [k \in S |-> f[k]]

\* len(rec.files) > 0 or len(rec.dirs) > 0
Owns(rec) == Len(rec.files) > 0 \/ Len(rec.dirs) > 0

\* Purge all users who don't own files/dirs.
PurgeUsers(W) ==
    [W EXCEPT !.by_user = Restrict(@, {u \in DOMAIN W.by_user : Owns(W.by_user[u])})]

\* The primary groups of the users that are left, looked up again.
RecomputePgrps(W, d) ==
    IF \E u \in DOMAIN W.by_user : ~HasPwUid(d, u)
    THEN Raise(W, "KeyError")
    ELSE [W EXCEPT !.pgrps = {getpwuid(d, u).pw_gid : u \in DOMAIN W.by_user}]

\* not (len(rec.files) > 0 or len(rec.dirs) > 0 or gid in self._pgrps)
Purgeable(W, gid) == ~(Owns(W.by_group[gid]) \/ gid \in W.pgrps)

DeadGroups(W) == {g \in DOMAIN W.by_group : Purgeable(W, g)}

\* for gid in self._by_group: ... del self._by_group[gid]
\* The loop iterates the dict it deletes from: after the first del, the
\* iterator's next step raises RuntimeError (dictionary changed size during
\* iteration), whether or not keys are left.
PurgeGroups(W) ==
    LET dead == {k \in DOMAIN W.gkeys : Purgeable(W, W.gkeys[k])}
    IN  IF dead = {} THEN W
        ELSE LET k == Min(dead)
                 g == W.gkeys[k]
             IN  Raise([W EXCEPT !.by_group = Restrict(@, DOMAIN W.by_group \ {g}),
                                 !.gkeys = SubSeq(@, 1, k - 1) \o SubSeq(@, k + 1, Len(@))],
                       "RuntimeError")

\* keep without the test urec[2] in self._by_user.
KeepAll(W, mems, d) == mems

\* keep: the members whose uid, looked up by name, is a key of _by_user.
Keep(W, mems, d) == {m \in mems : getpwnam(d, m).pw_uid \in DOMAIN W.by_user}

\* The trimming pass with pwd.getpwnam's KeyError caught and the name dropped.
TrimMembersFailingClosed(W, d) ==
    [W EXCEPT !.by_group =
        [g \in DOMAIN W.by_group |->
            [W.by_group[g] EXCEPT !.members =
                {m \in @ : HasPwNam(d, m) /\ getpwnam(d, m).pw_uid \in DOMAIN W.by_user}]]]

\* for gid in list(self._by_group.keys()): ...  pwd.getpwnam(mem) raises
\* KeyError for a name with no entry; the groups before that one are trimmed.
TrimMembers(W, d) ==
    LET bad  == {k \in DOMAIN W.gkeys :
                    \E m \in W.by_group[W.gkeys[k]].members : ~HasPwNam(d, m)}
        upto == IF bad = {} THEN Len(W.gkeys) ELSE Min(bad) - 1
        done == {W.gkeys[k] : k \in 1..upto}
    IN  [W EXCEPT !.by_group =
                      [g \in DOMAIN W.by_group |->
                          IF g \in done
                          THEN [W.by_group[g] EXCEPT !.members = Keep(W, @, d)]
                          ELSE W.by_group[g]],
                  !.err = IF bad = {} THEN "" ELSE "KeyError"]

FilterMembership(W, d) ==
    LET W1 == RecomputePgrps(PurgeUsers(W), d)
    IN  IF W1.err # "" THEN W1
        ELSE LET W2 == PurgeGroups(W1)
             IN  IF W2.err # "" THEN W2 ELSE TrimMembers(W2, d)

----------------------------------------------------------------------------
(* Walker.report.                                                          *)

RECURSIVE Sorted(_)
\* sorted(list(keys)): ascending.
Sorted(S) == IF S = {} THEN << >> ELSE <<Min(S)>> \o Sorted(S \ {Min(S)})

\* f"{rec.name}:*:{rec.id}:{rec.pgrp}:::\n", field by field.
PasswdLine(rec) ==
    [name |-> rec.name, passwd |-> "*", uid |-> rec.id, gid |-> rec.pgrp,
     gecos |-> "", dir |-> "", shell |-> ""]

\* f"{rec.name}:*:{rec.id}:{mem_name_str}\n", field by field; mems is the
\* order in which ",".join met the members.
GroupLine(rec, mems) ==
    [name |-> rec.name, passwd |-> "*", gid |-> rec.id, mem |-> mems]

\* The orders in which a set of str can be iterated: the order follows the
\* hashes of the strings, which are salted per process.
IterOrders(S) == {s \in [1..Cardinality(S) -> S] : Range(s) = S}

\* One iteration order for the members of each group.
JoinOrders(W) ==
    LET G == DOMAIN W.by_group
    IN  {f \in [G -> UNION {IterOrders(W.by_group[g].members) : g \in G}] :
            \A g \in G : f[g] \in IterOrders(W.by_group[g].members)}

PasswdText(W) ==
    LET uids == Sorted(DOMAIN W.by_user)
    IN  [k \in DOMAIN uids |-> PasswdLine(W.by_user[uids[k]])]

GroupText(W, ord) ==
    LET gids == Sorted(DOMAIN W.by_group)
    IN  [k \in DOMAIN gids |-> GroupLine(W.by_group[gids[k]], ord[gids[k]])]

\* Path.write_text: the file holds the text, or OSError and the file is as
\* it was.
NoFile == [exists |-> FALSE, lines |-> << >>]
FileOf(text) == [exists |-> TRUE, lines |-> text]
WriteOutcomes == {"ok", "passwd fails", "group fails"}

----------------------------------------------------------------------------
(* The program.                                                            *)

VARIABLES
    db,           \* the identity database
    tree,         \* the walk of the tree
    i,            \* build(): the next entry of the walk
    by_user,      \* Walker._by_user
    by_group,     \* Walker._by_group
    gkeys,        \* the insertion order of Walker._by_group
    pgrps,        \* Walker._pgrps
    pc,           \* "walking", "built", "done" or "failed"
    err,          \* the exception that ended the run
    passwd_file,  \* ./passwd
    group_file,   \* ./group
    written,      \* the files this run wrote
    run,          \* the number of this run of main()
    prev_passwd,  \* ./passwd as the run before left it
    prev_group,   \* ./group as the run before left it
    drifts        \* changes made to the identity database so far

vars == <<db, tree, i, by_user, by_group, gkeys, pgrps, pc, err, passwd_file,
          group_file, written, run, prev_passwd, prev_group, drifts>>

Self ==
    [by_user |-> by_user, by_group |-> by_group, gkeys |-> gkeys,
     pgrps |-> pgrps, err |-> err]

Store(W) ==
    /\ by_user' = W.by_user
    /\ by_group' = W.by_group
    /\ gkeys' = W.gkeys
    /\ pgrps' = W.pgrps
    /\ err' = W.err

Init ==
    /\ db \in DBs
    /\ tree \in Trees
    /\ i = 1
    /\ by_user = NewWalker.by_user
    /\ by_group = NewWalker.by_group
    /\ gkeys = NewWalker.gkeys
    /\ pgrps = NewWalker.pgrps
    /\ err = NewWalker.err
    /\ pc = "walking"
    /\ passwd_file = NoFile
    /\ group_file = NoFile
    /\ written = {}
    /\ run = 1
    /\ prev_passwd = NoFile
    /\ prev_group = NoFile
    /\ drifts = 0

\* build(): one turn of the loops over the walk, the call of _add_thing.
Visit ==
    /\ pc = "walking"
    /\ i <= Len(tree)
    /\ LET W == AddThing(Self, i, FObjOf(tree[i].kind), tree[i].st, db)
       IN  /\ Store(W)
           /\ pc' = IF W.err = "" THEN "walking" ELSE "failed"
           /\ i' = IF W.err = "" THEN i + 1 ELSE i
    /\ UNCHANGED <<db, tree, passwd_file, group_file, written, run,
                   prev_passwd, prev_group, drifts>>

\* build(): the walk is over, the call of _filter_membership.
Filter ==
    /\ pc = "walking"
    /\ i > Len(tree)
    /\ LET W == FilterMembership(Self, db)
       IN  /\ Store(W)
           /\ pc' = IF W.err = "" THEN "built" ELSE "failed"
    /\ UNCHANGED <<db, tree, i, passwd_file, group_file, written, run,
                   prev_passwd, prev_group, drifts>>

\* report(): ./passwd is written, then ./group.
Report ==
    /\ pc = "built"
    /\ \E ord \in JoinOrders(Self), out \in WriteOutcomes :
          /\ passwd_file' = IF out = "passwd fails" THEN passwd_file
                            ELSE FileOf(PasswdText(Self))
          /\ group_file' = IF out = "ok" THEN FileOf(GroupText(Self, ord))
                           ELSE group_file
          /\ written' = CASE out = "ok" -> {"passwd", "group"}
                          [] out = "passwd fails" -> {}
                          [] out = "group fails" -> {"passwd"}
          /\ pc' = IF out = "ok" THEN "done" ELSE "failed"
          /\ err' = IF out = "ok" THEN "" ELSE "OSError"
    /\ UNCHANGED <<db, tree, i, by_user, by_group, gkeys, pgrps, run,
                   prev_passwd, prev_group, drifts>>

\* main() once more, over the same tree: a new Walker; the files of the run
\* before are still in the working directory.
Main ==
    /\ pc = "done"
    /\ run < MaxRuns
    /\ run' = run + 1
    /\ Store(NewWalker)
    /\ i' = 1
    /\ pc' = "walking"
    /\ written' = {}
    /\ prev_passwd' = passwd_file
    /\ prev_group' = group_file
    /\ UNCHANGED <<db, tree, passwd_file, group_file, drifts>>

\* Outside the program: an administrator changes the primary group of a
\* user while the run is going on.
Usermod ==
    /\ pc = "walking"
    /\ drifts < MaxDrift
    /\ \E k \in DOMAIN db.passwd :
          \E g \in Gids \ {db.passwd[k].pw_gid} :
             db' = [db EXCEPT !.passwd[k].pw_gid = g]
    /\ drifts' = drifts + 1
    /\ UNCHANGED <<tree, i, by_user, by_group, gkeys, pgrps, pc, err,
                   passwd_file, group_file, written, run, prev_passwd,
                   prev_group>>

Next == Visit \/ Filter \/ Report \/ Main

\* The identity database does not change during the runs.
Spec == Init /\ [][Next]_vars

NextDrift == Visit \/ Filter \/ Report \/ Main \/ Usermod

\* The identity database may change during a run.
SpecDrift == Init /\ [][NextDrift]_vars

----------------------------------------------------------------------------
(* build() as a function of the order in which the entries are visited.    *)

RECURSIVE Aggregate(_, _, _, _)
\* The loops of build() over the entries of t, taken in the given order (a
\* sequence of paths); the first exception ends them.
Aggregate(W, order, t, d) ==
    IF order = << >> \/ W.err # "" THEN W
    ELSE LET p == Head(order)
         IN  Aggregate(AddThing(W, p, FObjOf(t[p].kind), t[p].st, d),
                       Tail(order), t, d)

\* build(): the walk, then _filter_membership.
Build(order, t, d) ==
    LET W == Aggregate(NewWalker, order, t, d)
    IN  IF W.err # "" THEN W ELSE FilterMembership(W, d)

----------------------------------------------------------------------------
(* Properties.                                                             *)

\* build() has returned in this run.
Built == pc \in {"built", "done"} \/ (pc = "failed" /\ err = "OSError")

\* The walk is over and _filter_membership runs in this step.
FilterStep == pc = "walking" /\ i > Len(tree) /\ pc' # "walking"

\* The steps of build() agree with build() as a function.
BuildAgrees ==
    (drifts = 0 /\ pc = "built") =>
        Self = Build([k \in 1..Len(tree) |-> k], tree, db)

Sym(kind, u, g) == [kind |-> kind, st |-> [ok |-> TRUE, st_uid |-> u, st_gid |-> g]]

\* One file of alice and one directory of bob, both of group staff.
ScenarioTree == << Sym("file", 1000, 20), Sym("dir", 1001, 20) >>

\* C1: in the scenario (alice 1000 and bob 1001 with primary group staff 20,
\* roster of staff {alice, carol}, a file of alice and a directory of bob,
\* both of group staff), after build() and report() the group file is the
\* one line of staff with the member alice, and the passwd file is the two
\* lines of alice and bob with primary group 20.
C1_ScenarioArtifacts ==
    (db = ScenarioDB /\ tree = ScenarioTree /\ pc = "done") =>
        /\ group_file = FileOf(<< [name |-> "staff", passwd |-> "*", gid |-> 20,
                                   mem |-> <<"alice">>] >>)
        /\ passwd_file = FileOf(<< [name |-> "alice", passwd |-> "*", uid |-> 1000,
                                    gid |-> 20, gecos |-> "", dir |-> "", shell |-> ""],
                                   [name |-> "bob", passwd |-> "*", uid |-> 1001,
                                    gid |-> 20, gecos |-> "", dir |-> "", shell |-> ""] >>)

\* C2: with an identity database that does not change and resolves every id
\* met, after build() every group record left (and every line of the group
\* file) owns a file or a directory, or its id is the primary group id of a
\* user record that is left.
C2_GroupsOwnOrArePrimary ==
    Built =>
        /\ \A g \in DOMAIN by_group :
              \/ Owns(by_group[g])
              \/ \E u \in DOMAIN by_user : by_user[u].pgrp = g
        /\ "group" \in written =>
              \A k \in DOMAIN group_file.lines :
                 \E g \in DOMAIN by_group :
                    /\ group_file.lines[k].gid = g
                    /\ \/ Owns(by_group[g])
                       \/ \E j \in DOMAIN passwd_file.lines :
                             passwd_file.lines[j].gid = g

\* C2 witness: build() has returned and left a group that owns nothing, next
\* to the file written for it.
C2_PrimaryOnlyGroupKept ==
    /\ pc = "done"
    /\ \E g \in DOMAIN by_group : ~Owns(by_group[g])

\* C3, as claimed: after build() every member name of a group record that is
\* left is the name of a user record that is left.
C3_MembersAreUserNames ==
    Built =>
        \A g \in DOMAIN by_group :
           \A m \in by_group[g].members :
              \E u \in DOMAIN by_user : by_user[u].name = m

\* C3, amended: after build() every member name of a group record that is
\* left resolves, by name, to the uid of a user record that is left; it is
\* that record's name when it is the first passwd name of the uid.
C3_MembersResolveToUsers ==
    Built =>
        \A g \in DOMAIN by_group :
           \A m \in by_group[g].members :
              /\ HasPwNam(db, m)
              /\ getpwnam(db, m).pw_uid \in DOMAIN by_user
              /\ getpwuid(db, getpwnam(db, m).pw_uid).pw_name = m
                    => by_user[getpwnam(db, m).pw_uid].name = m

\* C3 witness: the filter has cut a roster down to a part of it.
C3_RosterTrimmed ==
    /\ pc = "built"
    /\ \E g \in DOMAIN by_group :
          /\ by_group[g].members # {}
          /\ by_group[g].members # Range(getgrgid(db, g).gr_mem)

\* C4: for a fixed identity database and a fixed set of entries, every order
\* of the entries gives, after _add_thing and _filter_membership, the same
\* user ids, the same group ids and the same members of each group.
C4_OrderIndependent ==
    pc = "built" =>
        \A q \in IterOrders(1..Len(tree)) :
           LET R == Build(q, tree, db)
           IN  /\ R.err = ""
               /\ DOMAIN R.by_user = DOMAIN by_user
               /\ DOMAIN R.by_group = DOMAIN by_group
               /\ \A g \in DOMAIN by_group :
                     R.by_group[g].members = by_group[g].members

\* The owner, the group or the owner's primary group of the entry has no
\* record in the identity database.
Unresolvable(e, d) ==
    /\ e.st.ok
    /\ \/ ~HasPwUid(d, e.st.st_uid)
       \/ ~HasGrGid(d, e.st.st_gid)
       \/ ~HasGrGid(d, getpwuid(d, e.st.st_uid).pw_gid)

C6_NoPartialSuccess ==
    pc \in {"done", "failed"} => written \in {{}, {"passwd", "group"}}

\* C7: a second run over the same tree with the same identity database
\* leaves both files exactly as the first run left them, the order of the
\* member names on each group line included.
C7_RerunByteIdentical ==
    (run > 1 /\ pc = "done") =>
        (passwd_file = prev_passwd /\ group_file = prev_group)

\* The paths in the files and dirs of the records of a table.
PathsOf(table) ==
    UNION {Range(table[k].files) \cup Range(table[k].dirs) : k \in DOMAIN table}

\* C8, as claimed: build() never appends the path of an entry that is
\* neither a plain file nor a directory to a record's files or dirs, and
\* creates no record for it: a tree of such entries gives empty tables.
C8_OtherEntriesInvisible ==
    /\ \A k \in 1..(i - 1) :
          tree[k].kind \notin {"file", "dir"} =>
             k \notin PathsOf(by_user) \cup PathsOf(by_group)
    /\ (\A k \in DOMAIN tree : tree[k].kind \notin {"file", "dir"}) =>
          (by_user = << >> /\ by_group = << >>)

\* C8, amended: an entry that is neither a plain file nor a directory is
\* accounted as a file: when its stat succeeds, build() appends its path to
\* the files (never the dirs) of the user and of the group stat reports,
\* creating the records; it is skipped only when its stat fails, so a tree
\* of entries whose stat fails gives empty tables.
C8_OtherEntriesAreFiles ==
    /\ \A k \in 1..(i - 1) :
          tree[k].kind \notin {"file", "dir"} =>
             IF tree[k].st.ok
             THEN /\ tree[k].st.st_uid \in DOMAIN by_user
                  /\ tree[k].st.st_gid \in DOMAIN by_group
                  /\ k \in Range(by_user[tree[k].st.st_uid].files)
                  /\ k \in Range(by_group[tree[k].st.st_gid].files)
                  /\ \A u \in DOMAIN by_user : k \notin Range(by_user[u].dirs)
                  /\ \A g \in DOMAIN by_group : k \notin Range(by_group[g].dirs)
             ELSE k \notin PathsOf(by_user) \cup PathsOf(by_group)
    /\ (\A k \in DOMAIN tree : ~tree[k].st.ok) =>
          (by_user = << >> /\ by_group = << >>)

\* C8 witness: build() has returned over a tree with a symlink and a fifo
\* whose stat succeeded.
C8_SymlinkAndFifoWalked ==
    /\ pc = "built"
    /\ \E k \in DOMAIN tree : tree[k].kind = "symlink" /\ tree[k].st.ok
    /\ \E k \in DOMAIN tree : tree[k].kind = "fifo" /\ tree[k].st.ok

\* A group record that enters the trimming pass has a member name that the
\* identity database does not resolve.
UnresolvedMember ==
    \E g \in DOMAIN by_group :
       \E m \in by_group[g].members : ~HasPwNam(db, m)

\* C9, as claimed: when a member name of a group that is left cannot be
\* resolved, _filter_membership drops the name and returns normally.
C9_TrimFailsClosed ==
    [][(FilterStep /\ UnresolvedMember) =>
          /\ pc' = "built"
          /\ \A g \in DOMAIN by_group' :
                \A m \in by_group'[g].members : HasPwNam(db, m)]_vars

\* C9, amended: when a member name of a group that is left cannot be
\* resolved, _filter_membership ends with KeyError: the run fails, the name
\* stays on the record, and no file is written.
C9_TrimFailsFast ==
    [][(FilterStep /\ UnresolvedMember) =>
          /\ pc' = "failed"
          /\ err' = "KeyError"
          /\ written' = {}
          /\ \E g \in DOMAIN by_group' :
                \E m \in by_group'[g].members : ~HasPwNam(db, m)]_vars

\* C9 witness: the filter has ended with KeyError on a roster name.
C9_FilterRaisedKeyError ==
    /\ pc = "failed"
    /\ err = "KeyError"
    /\ i > Len(tree)
    /\ UnresolvedMember

\* The group records that own nothing and are not the primary group, looked
\* up now, of a user that is left.
DeadNow == DeadGroups(RecomputePgrps(PurgeUsers(Self), db))

\* C10: when the group table that enters the filter holds a record that
\* owns nothing and whose id is not in the recomputed primary-group set,
\* _filter_membership removes every such record, keeps the others, goes on
\* to trim the members and (every roster name resolving) returns normally.
C10_DeadGroupsRemoved ==
    [][(FilterStep /\ ~UnresolvedMember /\ DeadNow # {}) =>
          /\ pc' = "built"
          /\ DOMAIN by_group' = DOMAIN by_group \ DeadNow]_vars

====
